---- MODULE Spec2Model ----
(***************************************************************************)
(* heaptrack-trim: the streaming rewrite of a heaptrack profile            *)
(* (src/main.rs).  run_main reads the profile line by line, drops the      *)
(* allocation events of the first skip_timestamp milliseconds and rebases  *)
(* the allocation indices and the timestamps of what it keeps.             *)
(*                                                                         *)
(* Bytes are their ASCII codes, a line is a sequence of bytes.  A u64 is   *)
(* the sequence of its 16 hexadecimal digits, most significant first, so   *)
(* that the arithmetic keeps the width of the machine integer.             *)
(***************************************************************************)
EXTENDS Integers, Sequences, FiniteSets, TLC

VARIABLES
    debug_build,        \* the build profile: debug_assert! and overflow checks are on
    skip_timestamp,     \* run_main's parameter: the skip threshold in milliseconds
    preserve_time,      \* run_main's parameter
    rest,               \* the lines a fixed input still holds (a Cursor, a file)
    stream_left,        \* the lines the input stream may still deliver after rest
    input,              \* the lines read_until has returned so far
    output,             \* what has been written to the output, line by line
    origin,             \* for each output line, the position of the input line that wrote it
    pc,                 \* "loop", "done" (returned Ok) or "panicked"
    pass,               \* 1: the run on the profile; 2: the run on the first run's output
    allocation_index_correction,
    largest_written_allocation_index,
    is_skipping,
    current_abs_timestamp_ms,
    hex_next,           \* the codec alone: the call about to be made, [fn, arg]
    hex_calls           \* the codec alone: the calls made, [fn, arg, ret] each

vars == <<debug_build, skip_timestamp, preserve_time, rest, stream_left, input, output,
          origin, pc, pass, allocation_index_correction,
          largest_written_allocation_index, is_skipping, current_abs_timestamp_ms,
          hex_next, hex_calls>>

(***************************************************************************)
(* Bounds of the model.                                                    *)
(***************************************************************************)
\* the most lines an input stream delivers after its preamble
MaxLines == 3
\* the largest --skip-seconds value
MaxSkipSeconds == 1
\* the longest literal of the enumerated inputs of parse_hex, in bytes
MaxLiteralLen == 2
\* the largest of the enumerated inputs of write_hex
MaxHexValue == 40

(***************************************************************************)
(* Byte literals of the source.                                            *)
(***************************************************************************)
B_NL == 10
B_SPACE == 32
B_PLUS == 43
B_MINUS == 45
B_0 == 48
B_9 == 57
B_UA == 65
B_UF == 70
B_a == 97
B_c == 99
B_f == 102

\* u8::is_ascii_whitespace, used by trim_ascii_end: space, \t, \n, form feed, \r
AsciiWhitespace == {32, 9, 10, 12, 13}

(***************************************************************************)
(* u64 arithmetic.                                                         *)
(***************************************************************************)
\* hexadecimal digits in a u64
U64Digits == 16
\* bytes in a u64 (to_be_bytes)
U64Bytes == 8

U64Idx == 1..U64Digits

\* the u64 of a small natural number
RECURSIVE DigitOf(_, _)
DigitOf(n, k) == IF k = U64Digits THEN n % 16 ELSE DigitOf(n \div 16, k + 1)

U64(n) == [k \in U64Idx |-> DigitOf(n, k)]

U64Zero == U64(0)

U64Max == [k \in U64Idx |-> 15]

\* a < b on u64
U64Lt(a, b) ==
    \E k \in U64Idx : a[k] < b[k] /\ \A j \in 1..(k - 1) : a[j] = b[j]

U64Gt(a, b) == U64Lt(b, a)

U64Le(a, b) == ~U64Lt(b, a)

\* a - b modulo 2^64, digit by digit from the least significant one
RECURSIVE U64SubFrom(_, _, _, _)
U64SubFrom(a, b, k, borrow) ==
    IF k = 0 THEN << >>
    ELSE Append(U64SubFrom(a, b, k - 1, IF a[k] - b[k] - borrow < 0 THEN 1 ELSE 0),
                (16 + a[k] - b[k] - borrow) % 16)

U64WrappingSub(a, b) == U64SubFrom(a, b, U64Digits, 0)

\* a + 1 modulo 2^64
RECURSIVE U64IncFrom(_, _, _)
U64IncFrom(a, k, carry) ==
    IF k = 0 THEN << >>
    ELSE Append(U64IncFrom(a, k - 1, IF a[k] + carry > 15 THEN 1 ELSE 0),
                (a[k] + carry) % 16)

U64WrappingInc(a) == U64IncFrom(a, U64Digits, 1)

\* a + 1 does not fit in a u64
U64IncOverflows(a) == \A k \in U64Idx : a[k] = 15

\* rv *= 16, modulo 2^64
U64Mul16(a) == [k \in U64Idx |-> IF k = U64Digits THEN 0 ELSE a[k + 1]]

\* rv * 16 does not fit in a u64
U64Mul16Overflows(a) == a[1] # 0

\* x | y on four-bit values
RECURSIVE BitOr(_, _)
BitOr(x, y) ==
    IF x = 0 /\ y = 0 THEN 0
    ELSE (IF x % 2 = 1 \/ y % 2 = 1 THEN 1 ELSE 0) + 2 * BitOr(x \div 2, y \div 2)

\* rv |= d as u64, for a byte d below 16
U64OrDigit(a, d) == [a EXCEPT ![U64Digits] = BitOr(a[U64Digits], d)]

\* max that returns its second argument
max_keeps_second(a, b) == b

\* std::cmp::max
max(a, b) == IF U64Lt(a, b) THEN b ELSE a

(***************************************************************************)
(* The hex codec.                                                          *)
(***************************************************************************)
ParseOk(rv) == [tag |-> "Ok", rv |-> rv]

ParseErr == [tag |-> "Err", rv |-> U64Zero]

\* the arithmetic overflow panic of a build with overflow checks
ParsePanic == [tag |-> "Panic", rv |-> U64Zero]

\* hex_digit with the arm of the uppercase digits counting from 0 instead of 10
hex_digit_upper_from_zero(c) ==
    IF c \in B_0..B_9 THEN c - B_0
    ELSE IF c \in B_a..B_f THEN 10 + c - B_a
    ELSE IF c \in B_UA..B_UF THEN c - B_UA
    ELSE 16

\* the match on a byte of the literal: its value, or 16 for the arm that returns Err
hex_digit(c) ==
    IF c \in B_0..B_9 THEN c - B_0
    ELSE IF c \in B_a..B_f THEN 10 + c - B_a
    ELSE IF c \in B_UA..B_UF THEN 10 + c - B_UA
    ELSE 16

RECURSIVE parse_hex_from(_, _, _)
parse_hex_from(bytes, k, rv) ==
    IF k > Len(bytes) THEN ParseOk(rv)
    ELSE IF debug_build /\ U64Mul16Overflows(rv) THEN ParsePanic
    ELSE IF hex_digit(bytes[k]) = 16 THEN ParseErr
    ELSE parse_hex_from(bytes, k + 1, U64OrDigit(U64Mul16(rv), hex_digit(bytes[k])))

parse_hex(bytes) == parse_hex_from(bytes, 1, U64Zero)

to_be_bytes(v) == [j \in 1..U64Bytes |-> 16 * v[2 * j - 1] + v[2 * j]]

\* what write_hex writes for one four-bit value of a byte
write_hex_digit(c) ==
    IF c # 0 THEN << IF c < 10 THEN B_0 + c ELSE B_a + (c - 10) >> ELSE << >>

RECURSIVE write_hex_from(_, _)
write_hex_from(bytes, j) ==
    IF j > Len(bytes) THEN << >>
    ELSE write_hex_digit(bytes[j] \div 16) \o write_hex_digit(bytes[j] % 16)
             \o write_hex_from(bytes, j + 1)

\* the bytes write_hex writes
write_hex(v) == IF v = U64Zero THEN << B_0 >> ELSE write_hex_from(to_be_bytes(v), 1)

(***************************************************************************)
(* Taking the argument of a line:                                          *)
(* line.trim_ascii_end().split(|x| *x == b' ').skip(1).next()              *)
(***************************************************************************)
RECURSIVE trim_ascii_end(_)
trim_ascii_end(line) ==
    IF line # << >> /\ line[Len(line)] \in AsciiWhitespace
    THEN trim_ascii_end(SubSeq(line, 1, Len(line) - 1))
    ELSE line

\* the fields of a slice split at every space
RECURSIVE split_from(_, _, _)
split_from(bytes, k, field) ==
    IF k > Len(bytes) THEN << field >>
    ELSE IF bytes[k] = B_SPACE THEN << field >> \o split_from(bytes, k + 1, << >>)
    ELSE split_from(bytes, k + 1, Append(field, bytes[k]))

split(bytes) == split_from(bytes, 1, << >>)

\* args.next() after skip(1): None when the line has no space
first_arg(line) ==
    LET fields == split(trim_ascii_end(line))
    IN  IF Len(fields) >= 2 THEN [some |-> TRUE, bytes |-> fields[2]]
        ELSE [some |-> FALSE, bytes |-> << >>]

\* parse_hex(args.next().unwrap()): the unwrap of a missing argument panics
parse_arg(line) ==
    LET arg == first_arg(line)
    IN  IF arg.some THEN parse_hex(arg.bytes) ELSE ParsePanic

(***************************************************************************)
(* Inputs.                                                                 *)
(***************************************************************************)
\* a line "<tag> <arg>\n"
Line(tag, arg) == << tag, B_SPACE >> \o arg \o << B_NL >>

\* a line without its newline: the last line of an input that does not end in one
Unterminated(line) == SubSeq(line, 1, Len(line) - 1)

\* the time arguments "3e8" (1000), "7d0" (2000), "1" and the malformed "g"
TimeArgs == { << 51, 101, 56 >>, << 55, 100, 48 >>, << 49 >>, << 103 >> }

\* the event lines "+ 0", "+ 1", "- 2", "+ 11" (index 17) and the malformed "- g"
EventLines ==
    { Line(B_PLUS, << 48 >>), Line(B_PLUS, << 49 >>), Line(B_MINUS, << 50 >>),
      Line(B_PLUS, << 49, 49 >>), Line(B_MINUS, << 103 >>) }

\* the allocation definition "a 8 1"
AllocLines == { Line(B_a, << 56, B_SPACE, 49 >>) }

\* the opaque lines "s x" and "t 1 0"
OtherLines == { Line(115, << 120 >>), Line(116, << 49, B_SPACE, 48 >>) }

\* the last lines of streams that do not end in a newline: "c 7d0" and "+ 1"
LastLines ==
    { Unterminated(Line(B_c, << 55, 100, 48 >>)), Unterminated(Line(B_PLUS, << 49 >>)) }

\* what a stream begins with: nothing, or two allocations defined and made,
\* "a 8 1", "+ 0", "a 8 1", "+ 1"
Preambles ==
    { << >>,
      << Line(B_a, << 56, B_SPACE, 49 >>), Line(B_PLUS, << 48 >>),
         Line(B_a, << 56, B_SPACE, 49 >>), Line(B_PLUS, << 49 >>) >> }

\* the lines an input stream may deliver
StreamLines ==
    { Line(B_c, arg) : arg \in TimeArgs } \cup EventLines \cup AllocLines
        \cup OtherLines \cup LastLines

\* the input of the test basic: "+ 0", "c 7d0", "+ 1", "+ 2", "+ 3", "+ 4" (no final newline)
BasicInput ==
    << Line(B_PLUS, << 48 >>), Line(B_c, << 55, 100, 48 >>), Line(B_PLUS, << 49 >>),
       Line(B_PLUS, << 50 >>), Line(B_PLUS, << 51 >>),
       Unterminated(Line(B_PLUS, << 52 >>)) >>

\* what the test basic expects: "c 3e8", "+ 0", "+ 1", "+ 2", "+ 3"
BasicOutput ==
    << Line(B_c, << 51, 101, 56 >>), Line(B_PLUS, << 48 >>), Line(B_PLUS, << 49 >>),
       Line(B_PLUS, << 50 >>), Line(B_PLUS, << 51 >>) >>

\* the lines BufRead::read_until(b'\n') cuts a byte stream into
RECURSIVE read_lines_from(_, _, _)
read_lines_from(bytes, k, line) ==
    IF k > Len(bytes) THEN (IF line = << >> THEN << >> ELSE << line >>)
    ELSE IF bytes[k] = B_NL
         THEN << Append(line, B_NL) >> \o read_lines_from(bytes, k + 1, << >>)
    ELSE read_lines_from(bytes, k + 1, Append(line, bytes[k]))

read_lines(bytes) == read_lines_from(bytes, 1, << >>)

\* the bytes of an output, in the order written
RECURSIVE Flatten(_)
Flatten(chunks) == IF chunks = << >> THEN << >> ELSE Head(chunks) \o Flatten(Tail(chunks))

(***************************************************************************)
(* main and the test harness: the state run_main starts in.                *)
(***************************************************************************)
\* no call of the codec on its own is under way
NoHexCall == [fn |-> "none", arg |-> << >>]

RunMainStart ==
    /\ hex_next = NoHexCall
    /\ hex_calls = << >>
    /\ input = << >>
    /\ output = << >>
    /\ origin = << >>
    /\ pc = "loop"
    /\ allocation_index_correction = U64Zero
    /\ largest_written_allocation_index = U64Zero
    /\ is_skipping = TRUE
    /\ current_abs_timestamp_ms = U64Zero

\* main: run_main(cli.skip_seconds * 1000, cli.preserve_time, stdin, stdout)
InitMain ==
    /\ debug_build \in BOOLEAN
    /\ \E skip_seconds \in 0..MaxSkipSeconds : skip_timestamp = U64(skip_seconds * 1000)
    /\ preserve_time \in BOOLEAN
    /\ rest \in Preambles
    /\ stream_left = MaxLines
    /\ pass = 1
    /\ RunMainStart

\* the test basic: run_main(1000, false, Cursor::new(...), &mut output)
InitBasic ==
    /\ debug_build \in BOOLEAN
    /\ skip_timestamp = U64(1000)
    /\ preserve_time = FALSE
    /\ rest = BasicInput
    /\ stream_left = 0
    /\ pass = 1
    /\ RunMainStart

Init == InitMain \/ InitBasic

(***************************************************************************)
(* run_main: one action per arm of the match on the first byte of a line.  *)
(***************************************************************************)
\* the lines the next read_until may return
NextLines ==
    IF rest # << >> THEN { Head(rest) }
    ELSE IF stream_left > 0 THEN StreamLines
    ELSE { }

\* read_until returned line
Take(line) ==
    /\ input' = Append(input, line)
    /\ rest' = IF rest # << >> THEN Tail(rest) ELSE rest
    /\ stream_left' = IF rest # << >> THEN stream_left
                      ELSE IF line[Len(line)] = B_NL THEN stream_left - 1
                      ELSE 0
    /\ UNCHANGED << debug_build, skip_timestamp, preserve_time, pass, hex_next, hex_calls >>

\* Write that writes the bytes twice
WriteTwice(bytes) ==
    /\ output' = Append(Append(output, bytes), bytes)
    /\ origin' = Append(Append(origin, Len(input) + 1), Len(input) + 1)

\* output.write of the bytes of one line
Write(bytes) ==
    /\ output' = Append(output, bytes)
    /\ origin' = Append(origin, Len(input) + 1)

\* Panic that lets the loop go on to the next line
PanicRecovered == pc' = "loop"

\* an unwrap of None or Err, an arithmetic overflow or a failed debug_assert!
Panic == pc' = "panicked"

\* stops_skipping with >= for >
stops_skipping_at_threshold(timestamp) == is_skipping /\ U64Le(skip_timestamp, timestamp)

\* is_skipping && current_abs_timestamp_ms > skip_timestamp
stops_skipping(timestamp) == is_skipping /\ U64Gt(timestamp, skip_timestamp)

\* time_underflows of a build that never checks the subtraction
time_underflows_unchecked(timestamp) == FALSE

\* current_abs_timestamp_ms - skip_timestamp; the subtraction panics on underflow in a
\* build with overflow checks
time_underflows(timestamp) == debug_build /\ U64Lt(timestamp, skip_timestamp)

rebased_timestamp(timestamp) == U64WrappingSub(timestamp, skip_timestamp)

\* above_correction that also keeps index 0
above_correction_or_zero(allocation_index) ==
    \/ U64Gt(allocation_index, allocation_index_correction)
    \/ allocation_index = U64Zero

\* above_correction with != for >
not_equal_correction(allocation_index) ==
    allocation_index # allocation_index_correction

\* above_correction with >= for >
at_or_above_correction(allocation_index) ==
    U64Le(allocation_index_correction, allocation_index)

\* allocation_index > allocation_index_correction
above_correction(allocation_index) ==
    U64Gt(allocation_index, allocation_index_correction)

\* new_allocation_index without the - 1 that closes the gap
new_allocation_index_keeps_gap(allocation_index) ==
    U64WrappingSub(allocation_index, allocation_index_correction)

\* allocation_index - allocation_index_correction - 1
new_allocation_index(allocation_index) ==
    U64WrappingSub(U64WrappingSub(allocation_index, allocation_index_correction), U64(1))

\* the debug_assert! fails, or its largest_written_allocation_index + 1 overflows
assert_panics(new_index) ==
    /\ debug_build
    /\ \/ U64IncOverflows(largest_written_allocation_index)
       \/ ~U64Le(new_index, U64WrappingInc(largest_written_allocation_index))

\* b'c'
TimeLine ==
    /\ pc = "loop"
    /\ \E line \in NextLines :
        /\ line[1] = B_c
        /\ Take(line)
        /\ LET parsed == parse_arg(line)
               skipping == is_skipping /\ ~stops_skipping(parsed.rv)
           IN  IF parsed.tag # "Ok"
               THEN /\ Panic
                    /\ UNCHANGED << output, origin, is_skipping, current_abs_timestamp_ms >>
               ELSE /\ current_abs_timestamp_ms' = parsed.rv
                    /\ is_skipping' = skipping
                    /\ IF skipping
                       THEN UNCHANGED << output, origin, pc >>
                       ELSE IF preserve_time
                       THEN Write(line) /\ UNCHANGED pc
                       ELSE IF time_underflows(parsed.rv)
                       THEN Write(<< B_c, B_SPACE >>) /\ Panic
                       ELSE /\ Write(<< B_c, B_SPACE >>
                                     \o write_hex(rebased_timestamp(parsed.rv))
                                     \o << B_NL >>)
                            /\ UNCHANGED pc
        /\ UNCHANGED << allocation_index_correction, largest_written_allocation_index >>

\* b'+' | b'-'
EventLine ==
    /\ pc = "loop"
    /\ \E line \in NextLines :
        /\ line[1] \in { B_PLUS, B_MINUS }
        /\ Take(line)
        /\ LET parsed == parse_arg(line)
               allocation_index == parsed.rv
               new_index == new_allocation_index(allocation_index)
           IN  IF parsed.tag # "Ok"
               THEN /\ Panic
                    /\ UNCHANGED << output, origin, allocation_index_correction,
                                    largest_written_allocation_index >>
               ELSE IF ~above_correction(allocation_index)
               THEN UNCHANGED << output, origin, pc, allocation_index_correction,
                                 largest_written_allocation_index >>
               ELSE IF is_skipping
               THEN /\ allocation_index_correction' = allocation_index
                    /\ UNCHANGED << output, origin, pc, largest_written_allocation_index >>
               ELSE IF assert_panics(new_index)
               THEN /\ Panic
                    /\ UNCHANGED << output, origin, allocation_index_correction,
                                    largest_written_allocation_index >>
               ELSE /\ Write(<< line[1], B_SPACE >> \o write_hex(new_index) \o << B_NL >>)
                    /\ largest_written_allocation_index' =
                           max(new_index, largest_written_allocation_index)
                    /\ UNCHANGED << pc, allocation_index_correction >>
        /\ UNCHANGED << is_skipping, current_abs_timestamp_ms >>

\* AllocLine writing the line in either skip state, as the arm of _ does
AllocLineAlways ==
    /\ pc = "loop"
    /\ \E line \in NextLines :
        /\ line[1] = B_a
        /\ Take(line)
        /\ Write(line)
    /\ UNCHANGED << pc, allocation_index_correction, largest_written_allocation_index,
                    is_skipping, current_abs_timestamp_ms >>

\* b'a'
AllocLine ==
    /\ pc = "loop"
    /\ \E line \in NextLines :
        /\ line[1] = B_a
        /\ Take(line)
        /\ IF ~is_skipping THEN Write(line) ELSE UNCHANGED << output, origin >>
    /\ UNCHANGED << pc, allocation_index_correction, largest_written_allocation_index,
                    is_skipping, current_abs_timestamp_ms >>

\* OtherLine writing the line only when not skipping, as the arm of b'a' does
OtherLineWhenEmitting ==
    /\ pc = "loop"
    /\ \E line \in NextLines :
        /\ line[1] \notin { B_c, B_PLUS, B_MINUS, B_a }
        /\ Take(line)
        /\ IF ~is_skipping THEN Write(line) ELSE UNCHANGED << output, origin >>
    /\ UNCHANGED << pc, allocation_index_correction, largest_written_allocation_index,
                    is_skipping, current_abs_timestamp_ms >>

\* _
OtherLine ==
    /\ pc = "loop"
    /\ \E line \in NextLines :
        /\ line[1] \notin { B_c, B_PLUS, B_MINUS, B_a }
        /\ Take(line)
        /\ Write(line)
    /\ UNCHANGED << pc, allocation_index_correction, largest_written_allocation_index,
                    is_skipping, current_abs_timestamp_ms >>

\* read_bytes == 0: the loop ends and run_main returns Ok(())
Eof ==
    /\ pc = "loop"
    /\ rest = << >>
    /\ pc' = "done"
    /\ UNCHANGED << debug_build, skip_timestamp, preserve_time, rest, stream_left, input,
                    output, origin, pass, allocation_index_correction,
                    largest_written_allocation_index, is_skipping,
                    current_abs_timestamp_ms, hex_next, hex_calls >>

\* run_main again, with skip threshold 0 and preserve-time off, on what a first run
\* with preserve-time off wrote, when that begins with a time command
Rerun ==
    /\ pc = "done"
    /\ pass = 1
    /\ ~preserve_time
    /\ output # << >>
    /\ output[1][1] = B_c
    /\ pass' = 2
    /\ skip_timestamp' = U64Zero
    /\ preserve_time' = FALSE
    /\ rest' = read_lines(Flatten(output))
    /\ stream_left' = 0
    /\ input' = << >>
    /\ output' = << >>
    /\ origin' = << >>
    /\ pc' = "loop"
    /\ allocation_index_correction' = U64Zero
    /\ largest_written_allocation_index' = U64Zero
    /\ is_skipping' = TRUE
    /\ current_abs_timestamp_ms' = U64Zero
    /\ UNCHANGED << debug_build, hex_next, hex_calls >>

Next == TimeLine \/ EventLine \/ AllocLine \/ OtherLine \/ Eof \/ Rerun

Spec == Init /\ [][Next]_vars

(***************************************************************************)
(* The hex codec on its own: parse_hex of a literal and write_hex of what  *)
(* it returned, or write_hex of a value and parse_hex of what it wrote.    *)
(***************************************************************************)
\* the bytes "0" "1" "3" "7" "8" "a" "d" "e" "f" "A" "F" and, next to the ranges of
\* parse_hex, "/" ":" "@" "G" "`" "g"
LiteralBytes == { 48, 49, 51, 55, 56, 97, 100, 101, 102, 65, 70, 47, 58, 64, 71, 96, 103 }

ShortLiterals ==
    UNION { [1..n -> LiteralBytes] : n \in 0..MaxLiteralLen }

\* the literals of test_hex and of the hex round trip: "7d0", "3e8", "ffffffffffffffff"
TestLiterals ==
    { << 55, 100, 48 >>, << 51, 101, 56 >>, [k \in 1..U64Digits |-> B_f] }

\* digit repeated n times
Repeated(digit, n) == [k \in 1..n |-> digit]

\* runs of 15 to 17 digits "0", "1" or "f", alone or followed by "g" or by "0g"
LongLiterals ==
    { Repeated(digit, n) \o tail :
        digit \in { B_0, 49, B_f }, n \in (U64Digits - 1)..(U64Digits + 1),
        tail \in { << >>, << 103 >>, << B_0, 103 >> } }

Literals == ShortLiterals \cup TestLiterals \cup LongLiterals

\* 0..MaxHexValue, the values 1000 and 2000 of the tests, and u64::MAX
HexValues == { U64(n) : n \in 0..MaxHexValue } \cup { U64(1000), U64(2000), U64Max }

InitHex ==
    /\ debug_build \in BOOLEAN
    /\ \/ \E literal \in Literals : hex_next = [fn |-> "parse_hex", arg |-> literal]
       \/ \E value \in HexValues : hex_next = [fn |-> "write_hex", arg |-> value]
    /\ hex_calls = << >>
    /\ skip_timestamp = U64Zero
    /\ preserve_time = FALSE
    /\ rest = << >>
    /\ stream_left = 0
    /\ input = << >>
    /\ output = << >>
    /\ origin = << >>
    /\ pc = "idle"
    /\ pass = 1
    /\ allocation_index_correction = U64Zero
    /\ largest_written_allocation_index = U64Zero
    /\ is_skipping = TRUE
    /\ current_abs_timestamp_ms = U64Zero

HexFrame ==
    UNCHANGED << debug_build, skip_timestamp, preserve_time, rest, stream_left, input,
                 output, origin, pc, pass, allocation_index_correction,
                 largest_written_allocation_index, is_skipping,
                 current_abs_timestamp_ms >>

\* a call of parse_hex; what it returns, when Ok, is handed to write_hex
ParseHex ==
    /\ hex_next.fn = "parse_hex"
    /\ Len(hex_calls) < 2
    /\ LET ret == parse_hex(hex_next.arg)
       IN  /\ hex_calls' = Append(hex_calls,
                                  [fn |-> "parse_hex", arg |-> hex_next.arg, ret |-> ret])
           /\ hex_next' = IF ret.tag = "Ok" THEN [fn |-> "write_hex", arg |-> ret.rv]
                          ELSE NoHexCall
    /\ HexFrame

\* a call of write_hex; what it writes is handed to parse_hex
WriteHex ==
    /\ hex_next.fn = "write_hex"
    /\ Len(hex_calls) < 2
    /\ LET ret == write_hex(hex_next.arg)
       IN  /\ hex_calls' = Append(hex_calls,
                                  [fn |-> "write_hex", arg |-> hex_next.arg, ret |-> ret])
           /\ hex_next' = [fn |-> "parse_hex", arg |-> ret]
    /\ HexFrame

NextHex == ParseHex \/ WriteHex

SpecHex == InitHex /\ [][NextHex]_vars

(***************************************************************************)
(* Notions the properties are stated with.                                 *)
(***************************************************************************)
\* the lowercase hexadecimal digit of a four-bit value
HexDigitByte(d) == IF d < 10 THEN B_0 + d ELSE B_a + d - 10

\* the minimal-width lowercase hexadecimal representation of a u64: its digits from
\* the first non-zero one on, "0" for zero
CanonicalHex(v) ==
    LET significant == { k \in U64Idx : v[k] # 0 }
        first == IF significant = { } THEN U64Digits
                 ELSE CHOOSE k \in significant : \A j \in significant : k <= j
    IN  [i \in 1..(U64Digits - first + 1) |-> HexDigitByte(v[first + i - 1])]

IsHexByte(b) == b \in (B_0..B_9) \cup (B_a..B_f) \cup (B_UA..B_UF)

IsLowerHexByte(b) == b \in (B_0..B_9) \cup (B_a..B_f)

\* the value of a hexadecimal digit
HexByteValue(b) ==
    IF b \in B_0..B_9 THEN b - B_0
    ELSE IF b \in B_a..B_f THEN b - B_a + 10
    ELSE b - B_UA + 10

IsHexLiteral(bytes) == \A k \in 1..Len(bytes) : IsHexByte(bytes[k])

\* the literal has at most 16 digits after its leading zeros: its value fits in 64 bits
LiteralFits(bytes) ==
    \A k \in 1..(Len(bytes) - U64Digits) : bytes[k] = B_0

\* the value of a literal that fits: its digits, right-aligned in the 16 of a u64
LiteralValue(bytes) ==
    [k \in U64Idx |->
        IF k + Len(bytes) - U64Digits >= 1
        THEN HexByteValue(bytes[k + Len(bytes) - U64Digits]) ELSE 0]

\* a canonical lowercase literal: "0", or lowercase digits without a leading zero
IsCanonicalLiteral(bytes) ==
    /\ Len(bytes) \in 1..U64Digits
    /\ \A k \in 1..Len(bytes) : IsLowerHexByte(bytes[k])
    /\ (Len(bytes) > 1 => bytes[1] # B_0)

\* the position of the first byte of a literal that is no hexadecimal digit (0: none)
FirstBadByte(bytes) ==
    IF IsHexLiteral(bytes) THEN 0
    ELSE CHOOSE k \in 1..Len(bytes) :
             ~IsHexByte(bytes[k]) /\ \A j \in 1..(k - 1) : IsHexByte(bytes[j])

IsEvent(line) == line # << >> /\ line[1] \in { B_PLUS, B_MINUS }

IsTime(line) == line # << >> /\ line[1] = B_c

IsAlloc(line) == line # << >> /\ line[1] = B_a

IsOpaque(line) == line # << >> /\ line[1] \notin { B_c, B_a, B_PLUS, B_MINUS }

\* the argument of a line: the bytes between its first space and the next space or
\* the end of the line
ArgOf(line) == first_arg(line).bytes

\* the index an event line carries
IndexOf(line) == LiteralValue(ArgOf(line))

\* the number of lines among the first n of lines that satisfy Is
CountBefore(lines, n, Is(_)) == Len(SelectSeq(SubSeq(lines, 1, n), Is))

\* the line read last
LastLine == input[Len(input)]

\* run_main has just handled a line (and not yet the end of the input)
JustRead == pc \in { "loop", "panicked" } /\ input # << >>

(***************************************************************************)
(* Properties of the codec, checked under SpecHex.                         *)
(***************************************************************************)
\* the calls of one function among the calls made
CallsOf(fn) == { i \in 1..Len(hex_calls) : hex_calls[i].fn = fn }

\* C8: write_hex(v) is the minimal-width lowercase hexadecimal representation of v
\* ("0" for zero), so parse_hex(write_hex(v)) = v, and write_hex(parse_hex(x)) = x
\* for every canonical lowercase literal x.
C8_HexRoundTrip ==
    /\ \A i \in CallsOf("write_hex") : hex_calls[i].ret = CanonicalHex(hex_calls[i].arg)
    /\ (Len(hex_calls) = 2 /\ hex_calls[1].fn = "write_hex")
           => hex_calls[2].ret = ParseOk(hex_calls[1].arg)
    /\ (Len(hex_calls) = 2 /\ hex_calls[1].fn = "parse_hex"
           /\ IsCanonicalLiteral(hex_calls[1].arg))
           => hex_calls[2].ret = hex_calls[1].arg

\* parse_hex returns the value of every hexadecimal literal that fits in 64 bits
ParsesLiterals ==
    \A i \in CallsOf("parse_hex") :
        (IsHexLiteral(hex_calls[i].arg) /\ LiteralFits(hex_calls[i].arg))
            => hex_calls[i].ret = ParseOk(LiteralValue(hex_calls[i].arg))

\* the digits before the first byte that is no digit amount to 2^60 or more, so that
\* rv *= 16 overflows before parse_hex examines that byte
OverflowsBeforeBadByte(bytes) ==
    \E j \in 1..(FirstBadByte(bytes) - U64Digits) : bytes[j] # B_0

\* C9 as stated: parse_hex returns the value of every literal of digits 0-9, a-f, A-F
\* that fits in 64 bits, and an error for every input containing any other byte.
C9_ParseHexOrError ==
    /\ ParsesLiterals
    /\ \A i \in CallsOf("parse_hex") :
           ~IsHexLiteral(hex_calls[i].arg) => hex_calls[i].ret = ParseErr

\* C9, amended: parse_hex returns the value of every literal of digits 0-9, a-f, A-F
\* that fits in 64 bits; for an input containing any other byte it returns an error,
\* except that a build with overflow checks panics when the digits before the first
\* such byte amount to 2^60 or more.
C9_ParseHexOrErrorUnlessOverflow ==
    /\ ParsesLiterals
    /\ \A i \in CallsOf("parse_hex") :
           ~IsHexLiteral(hex_calls[i].arg)
               => hex_calls[i].ret =
                      IF debug_build /\ OverflowsBeforeBadByte(hex_calls[i].arg)
                      THEN ParsePanic ELSE ParseErr

\* C9, witness: parse_hex has returned 2000 for the literal "7d0" of test_hex
C9_Witness ==
    \E i \in CallsOf("parse_hex") :
        /\ hex_calls[i].arg = << 55, 100, 48 >>
        /\ hex_calls[i].ret = ParseOk(U64(2000))

(***************************************************************************)
(* Properties of run_main, checked under Spec.                             *)
(***************************************************************************)
\* the step reads one more line: the line, and what parse_hex makes of its argument
ReadsLine == pc = "loop" /\ Len(input') = Len(input) + 1

LineRead == input'[Len(input')]

\* the number, among the allocation definitions written, of the one at output[q]
AllocNumberOut(q) == CountBefore(output, q - 1, IsAlloc)

\* the number, among the allocation definitions read, of the one at input[p]: the
\* allocation index the input's event lines know it by
AllocNumberIn(p) == CountBefore(input, p - 1, IsAlloc)

\* C1: an event line written with index N refers to the allocation of the N-th
\* (0-indexed) 'a' line written, which is the input 'a' line the event referenced in
\* the input, and that 'a' line has been written before the event line.
C1_SharedNumbering ==
    \A k \in 1..Len(output) :
        IsEvent(output[k]) =>
            \E q \in 1..(k - 1) :
                /\ IsAlloc(output[q])
                /\ U64(AllocNumberOut(q)) = IndexOf(output[k])
                /\ U64(AllocNumberIn(origin[q])) = IndexOf(input[origin[k]])

\* the test basic has run to its end
BasicDone == pc = "done" /\ pass = 1 /\ input = BasicInput

\* C2: when emitting, an event line whose index i is above the correction offset
\* writes exactly one line: its tag, a space, the hexadecimal representation of
\* i - correction - 1 and a newline; and the test basic writes what it expects.
C2_EmitsRebasedIndex ==
    /\ [][(/\ ReadsLine
            /\ ~is_skipping
            /\ IsEvent(LineRead)
            /\ parse_arg(LineRead).tag = "Ok"
            /\ U64Gt(parse_arg(LineRead).rv, allocation_index_correction))
           => output' = Append(output,
                  << LineRead[1], B_SPACE >>
                  \o CanonicalHex(U64WrappingSub(
                         U64WrappingSub(parse_arg(LineRead).rv,
                                        allocation_index_correction), U64(1)))
                  \o << B_NL >>)]_vars
    /\ [](BasicDone => output = BasicOutput)

\* the first event line of the output, if any, carries index 0
FirstEventIsZero ==
    \A k \in 1..Len(output) :
        (IsEvent(output[k]) /\ \A j \in 1..(k - 1) : ~IsEvent(output[j]))
            => ArgOf(output[k]) = << B_0 >>

\* C3 as stated: for every input and threshold, the first event line written after
\* the transition from skipping to emitting carries index 0.
C3_FirstEventIsZero == FirstEventIsZero

\* the event lines read carry hexadecimal indices that are contiguous in
\* first-occurrence order: an index is 0 or at most 1 above one referenced before it
ContiguousLines(lines) ==
    \A p \in 1..Len(lines) :
        IsEvent(lines[p]) =>
            /\ first_arg(lines[p]).some
            /\ IsHexLiteral(ArgOf(lines[p]))
            /\ LiteralFits(ArgOf(lines[p]))
            /\ \/ IndexOf(lines[p]) = U64Zero
               \/ \E q \in 1..(p - 1) :
                      /\ IsEvent(lines[q])
                      /\ U64Le(IndexOf(lines[p]), U64WrappingInc(IndexOf(lines[q])))

\* the lines read are such
ContiguousInput == ContiguousLines(input)

\* C3, amended: for every threshold and every input whose event indices are
\* contiguous in first-occurrence order, the first event line written after the
\* transition from skipping to emitting carries index 0.
C3_FirstEventIsZeroOfContiguous == ContiguousInput => FirstEventIsZero

\* C3, witness: the event lines read were contiguous, the correction offset froze
\* above 0, and an event line has been written
C3_Witness ==
    /\ ContiguousInput
    /\ allocation_index_correction # U64Zero
    /\ \E k \in 1..Len(output) : IsEvent(output[k])

\* C4: whenever an event line with index N > 0 is written, an event line with index
\* N - 1 has been written before it.
C4_NoGap ==
    \A k \in 1..Len(output) :
        (IsEvent(output[k]) /\ IndexOf(output[k]) # U64Zero)
            => \E j \in 1..(k - 1) :
                   /\ IsEvent(output[j])
                   /\ U64WrappingInc(IndexOf(output[j])) = IndexOf(output[k])

\* C5: an event line whose index is at or below the correction offset in force when
\* it is read writes nothing, skipping or emitting, preserve-time or not.
C5_DropsAtOrBelowCorrection ==
    [][(/\ ReadsLine
        /\ IsEvent(LineRead)
        /\ parse_arg(LineRead).tag = "Ok"
        /\ U64Le(parse_arg(LineRead).rv, allocation_index_correction))
       => output' = output]_vars

\* C5, witness: emitting, after something was written, the line read last is an event
\* line with an index at or below the frozen correction offset
C5_Witness ==
    /\ JustRead
    /\ ~is_skipping
    /\ output # << >>
    /\ IsEvent(LastLine)
    /\ parse_arg(LastLine).tag = "Ok"
    /\ U64Le(parse_arg(LastLine).rv, allocation_index_correction)
    /\ allocation_index_correction # U64Zero

\* C6: the lines whose first byte is none of 'c', 'a', '+', '-' are in the output
\* byte for byte, in the order read, whether read while skipping or while emitting.
C6_OpaquePassThrough ==
    SelectSeq(output, IsOpaque) = SelectSeq(input, IsOpaque)

\* C6, witness: an opaque line written while skipping (before the first time line of
\* the output) and a different one written while emitting
C6_Witness ==
    \E i, j, k \in 1..Len(output) :
        /\ i < j /\ j < k
        /\ IsOpaque(output[i]) /\ IsOpaque(output[k]) /\ output[i] # output[k]
        /\ IsTime(output[j])
        /\ \A h \in 1..(j - 1) : ~IsTime(output[h])

\* C7: run_main with skip threshold 0 and preserve-time off, on an output of run_main
\* that begins with a time command, writes that trace again line for line.
C7_RerunReproduces == (pass = 2 /\ pc = "done") => output = input

\* C10: a 'c' line that leaves run_main skipping writes nothing; one read or leaving
\* it emitting, preserve-time off, writes exactly "c ", the hexadecimal
\* representation of elapsed time - skip threshold and a newline, and that argument
\* decodes to elapsed time - skip threshold.
C10_RewritesTime ==
    [][(/\ ReadsLine
        /\ IsTime(LineRead)
        /\ parse_arg(LineRead).tag = "Ok")
       => IF is_skipping' THEN output' = output
          ELSE ~preserve_time =>
                /\ output' = Append(output,
                       << B_c, B_SPACE >>
                       \o CanonicalHex(U64WrappingSub(parse_arg(LineRead).rv,
                                                      skip_timestamp))
                       \o << B_NL >>)
                /\ parse_arg(output'[Len(output')]) =
                       ParseOk(U64WrappingSub(parse_arg(LineRead).rv, skip_timestamp))]_vars

(***************************************************************************)
(* run_main as a function of the lines read: what one iteration of its     *)
(* loop makes of the state, for either value of preserve_time.             *)
(***************************************************************************)
\* the locals of run_main and what it has written, before the first line
run_start ==
    [output |-> << >>,
     pc |-> "loop",
     allocation_index_correction |-> U64Zero,
     largest_written_allocation_index |-> U64Zero,
     is_skipping |-> TRUE,
     current_abs_timestamp_ms |-> U64Zero]

\* run_time_line that, with preserve_time, writes the line while skipping too
run_time_line_always_preserved(st, line, preserve) ==
    LET parsed == parse_arg(line)
        skipping == st.is_skipping /\ ~U64Gt(parsed.rv, skip_timestamp)
        read == [st EXCEPT !.current_abs_timestamp_ms = parsed.rv,
                           !.is_skipping = skipping]
    IN  IF parsed.tag # "Ok" THEN [st EXCEPT !.pc = "panicked"]
        ELSE IF preserve THEN [read EXCEPT !.output = Append(@, line)]
        ELSE IF skipping THEN read
        ELSE IF debug_build /\ U64Lt(parsed.rv, skip_timestamp)
        THEN [read EXCEPT !.output = Append(@, << B_c, B_SPACE >>), !.pc = "panicked"]
        ELSE [read EXCEPT !.output =
                  Append(@, << B_c, B_SPACE >>
                            \o write_hex(U64WrappingSub(parsed.rv, skip_timestamp))
                            \o << B_NL >>)]

\* the b'c' arm
run_time_line(st, line, preserve) ==
    LET parsed == parse_arg(line)
        skipping == st.is_skipping /\ ~U64Gt(parsed.rv, skip_timestamp)
        read == [st EXCEPT !.current_abs_timestamp_ms = parsed.rv,
                           !.is_skipping = skipping]
    IN  IF parsed.tag # "Ok" THEN [st EXCEPT !.pc = "panicked"]
        ELSE IF skipping THEN read
        ELSE IF preserve THEN [read EXCEPT !.output = Append(@, line)]
        ELSE IF debug_build /\ U64Lt(parsed.rv, skip_timestamp)
        THEN [read EXCEPT !.output = Append(@, << B_c, B_SPACE >>), !.pc = "panicked"]
        ELSE [read EXCEPT !.output =
                  Append(@, << B_c, B_SPACE >>
                            \o write_hex(U64WrappingSub(parsed.rv, skip_timestamp))
                            \o << B_NL >>)]

\* the b'+' | b'-' arm
run_event_line(st, line) ==
    LET parsed == parse_arg(line)
        allocation_index == parsed.rv
        new_index == U64WrappingSub(
                         U64WrappingSub(allocation_index, st.allocation_index_correction),
                         U64(1))
        largest == st.largest_written_allocation_index
    IN  IF parsed.tag # "Ok" THEN [st EXCEPT !.pc = "panicked"]
        ELSE IF ~U64Gt(allocation_index, st.allocation_index_correction) THEN st
        ELSE IF st.is_skipping
        THEN [st EXCEPT !.allocation_index_correction = allocation_index]
        ELSE IF debug_build /\ (U64IncOverflows(largest)
                                \/ ~U64Le(new_index, U64WrappingInc(largest)))
        THEN [st EXCEPT !.pc = "panicked"]
        ELSE [st EXCEPT !.output = Append(@, << line[1], B_SPACE >>
                                             \o write_hex(new_index) \o << B_NL >>),
                        !.largest_written_allocation_index = max(new_index, largest)]

\* one iteration of the loop on a line read
run_line(st, line, preserve) ==
    IF st.pc # "loop" THEN st
    ELSE IF line[1] = B_c THEN run_time_line(st, line, preserve)
    ELSE IF line[1] \in { B_PLUS, B_MINUS } THEN run_event_line(st, line)
    ELSE IF line[1] = B_a
    THEN IF ~st.is_skipping THEN [st EXCEPT !.output = Append(@, line)] ELSE st
    ELSE [st EXCEPT !.output = Append(@, line)]

RECURSIVE run_lines(_, _, _, _)
run_lines(lines, k, st, preserve) ==
    IF k > Len(lines) THEN st
    ELSE run_lines(lines, k + 1, run_line(st, lines[k], preserve), preserve)

\* run_main on the lines read so far, with the given preserve_time
run_of(preserve) == run_lines(input, 1, run_start, preserve)

\* the state run_main is in, as such a record
run_now ==
    [output |-> output,
     pc |-> IF pc = "done" THEN "loop" ELSE pc,
     allocation_index_correction |-> allocation_index_correction,
     largest_written_allocation_index |-> largest_written_allocation_index,
     is_skipping |-> is_skipping,
     current_abs_timestamp_ms |-> current_abs_timestamp_ms]

\* the loop of run_main and run_of agree on every line sequence read
RunOfAgrees == run_now = run_of(preserve_time)

(***************************************************************************)
(* Properties of run_main over the lines read, checked under Spec.         *)
(***************************************************************************)
IsNotTime(line) == ~IsTime(line)

\* the value a time line carries
TimeValue(line) == parse_arg(line).rv

\* the values of the time lines among lines are non-decreasing
TimesNonDecreasingIn(lines) ==
    \A p, q \in 1..Len(lines) :
        (/\ p < q
         /\ IsTime(lines[p]) /\ parse_arg(lines[p]).tag = "Ok"
         /\ IsTime(lines[q]) /\ parse_arg(lines[q]).tag = "Ok")
            => U64Le(TimeValue(lines[p]), TimeValue(lines[q]))

\* the values of the time lines read are non-decreasing
TimesNonDecreasing == TimesNonDecreasingIn(input)

\* the locals of run_main in a state record
Locals(st) ==
    << st.is_skipping, st.allocation_index_correction,
       st.largest_written_allocation_index, st.current_abs_timestamp_ms >>

\* some stretch of the time lines read, verbatim
IsStretchOfTimeLinesRead(lines) ==
    LET read == SelectSeq(input, IsTime)
    IN  \E i \in 1..(Len(read) + 1) :
            /\ i + Len(lines) - 1 <= Len(read)
            /\ lines = SubSeq(read, i, i + Len(lines) - 1)

\* the runs with and without preserve_time on the lines read differ in nothing but
\* what their time lines hold; with preserve_time these are the lines read
SameButTimeLines ==
    LET on == run_of(TRUE)
        off == run_of(FALSE)
    IN  /\ Len(on.output) = Len(off.output)
        /\ \A k \in 1..Len(on.output) :
               IF IsTime(on.output[k]) THEN IsTime(off.output[k])
               ELSE on.output[k] = off.output[k]
        /\ SelectSeq(on.output, IsNotTime) = SelectSeq(off.output, IsNotTime)
        /\ IsStretchOfTimeLinesRead(SelectSeq(on.output, IsTime))
        /\ Locals(on) = Locals(off)

\* C11 as stated: for every input and threshold, the runs with preserve-time on and
\* off write the same lines except for the 'c' lines, which with preserve-time on are
\* the input lines verbatim, and end in the same internal state.
C11_PreserveTimeChangesTimeLinesOnly == SameButTimeLines

\* C11, amended: the same, for every input whose 'c' values are non-decreasing, and
\* for every input in a build without overflow checks.
C11_PreserveTimeChangesTimeLinesOnlyIfMonotone ==
    (debug_build => TimesNonDecreasing) => SameButTimeLines

\* C11, witness: in a build with overflow checks, on non-decreasing time values, the
\* two runs wrote different time lines and the same line that is no time line after
C11_Witness ==
    /\ debug_build
    /\ TimesNonDecreasing
    /\ \E j, k \in 1..Len(run_of(TRUE).output) :
           /\ j < k
           /\ run_of(TRUE).output[j] # run_of(FALSE).output[j]
           /\ IsNotTime(run_of(TRUE).output[k])
           /\ run_of(TRUE).output[k] = run_of(FALSE).output[k]

\* the lines written for the line read at position p of the input
WrittenFor(p) == { k \in 1..Len(output) : origin[k] = p }

\* C12: an 'a' line is written verbatim if and only if run_main is emitting when it
\* is read; an 'a' line read while skipping, before the first time line too, writes
\* nothing.
C12_AllocWrittenIffEmitting ==
    [][(ReadsLine /\ IsAlloc(LineRead))
       => IF is_skipping THEN output' = output
          ELSE output' = Append(output, LineRead)]_vars

\* C12, witness: an 'a' line read before the first time line wrote nothing, and an
\* 'a' line read while emitting is the last line written
C12_Witness ==
    /\ JustRead
    /\ ~is_skipping
    /\ IsAlloc(LastLine)
    /\ output # << >>
    /\ output[Len(output)] = LastLine
    /\ origin[Len(output)] = Len(input)
    /\ \E p \in 1..Len(input) :
           /\ IsAlloc(input[p])
           /\ \A q \in 1..p : ~IsTime(input[q])
           /\ WrittenFor(p) = { }

\* the line has a first argument and that holds a byte that is no hexadecimal digit
HasMalformedArg(line) == first_arg(line).some /\ ~IsHexLiteral(ArgOf(line))

\* C13: a 'c', '+' or '-' line whose hexadecimal argument holds a byte that is no
\* hexadecimal digit ends the run with a failure at once: nothing is written for the
\* line, and after the failure no line is read, nothing is written and the run does
\* not return.
C13_MalformedNumberIsFatal ==
    /\ [][(/\ ReadsLine
            /\ (IsTime(LineRead) \/ IsEvent(LineRead))
            /\ HasMalformedArg(LineRead))
           => (output' = output /\ pc' = "panicked")]_vars
    /\ [][pc # "panicked"]_vars

\* C13, witness: emitting, after something was written, run_main has failed on an
\* event line whose argument is no hexadecimal number
C13_Witness ==
    /\ pc = "panicked"
    /\ ~is_skipping
    /\ output # << >>
    /\ IsEvent(LastLine)
    /\ HasMalformedArg(LastLine)
    /\ WrittenFor(Len(input)) = { }

\* the step belongs to one run of run_main: it does not start the run again
SameRun == pass' = pass

\* C14: the skip state starts as skipping and changes at most once: it becomes
\* emitting exactly at the first 'c' line whose value is strictly above the skip
\* threshold (a value equal to the threshold keeps skipping), and once emitting it
\* never returns to skipping, whatever a later 'c' line carries.
C14_SkipStateFlipsOnce ==
    /\ [](input = << >> => is_skipping)
    /\ [][SameRun =>
            /\ ~is_skipping => ~is_skipping'
            /\ (is_skipping /\ ~is_skipping')
                   <=> (/\ is_skipping
                        /\ ReadsLine
                        /\ IsTime(LineRead)
                        /\ parse_arg(LineRead).tag = "Ok"
                        /\ U64Gt(TimeValue(LineRead), skip_timestamp))]_vars

\* C14, witness: emitting, after a time line equal to the threshold that kept
\* skipping, a time line above it, and a later time line at or below it
C14_Witness ==
    /\ ~is_skipping
    /\ \E p, q, r \in 1..Len(input) :
           /\ p < q /\ q < r
           /\ IsTime(input[p]) /\ parse_arg(input[p]).tag = "Ok"
           /\ TimeValue(input[p]) = skip_timestamp
           /\ IsTime(input[q]) /\ parse_arg(input[q]).tag = "Ok"
           /\ U64Gt(TimeValue(input[q]), skip_timestamp)
           /\ IsTime(input[r]) /\ parse_arg(input[r]).tag = "Ok"
           /\ U64Le(TimeValue(input[r]), skip_timestamp)

\* C15: the correction offset starts at 0 and never decreases; it changes only when
\* an event line with a strictly larger index is read while skipping, and becomes
\* that index; lines read while emitting and 'c', 'a' and opaque lines leave it
\* unchanged.
C15_CorrectionFrame ==
    /\ [](input = << >> => allocation_index_correction = U64Zero)
    /\ [][SameRun =>
            /\ U64Le(allocation_index_correction, allocation_index_correction')
            /\ IF /\ ReadsLine
                  /\ is_skipping
                  /\ IsEvent(LineRead)
                  /\ parse_arg(LineRead).tag = "Ok"
                  /\ U64Gt(parse_arg(LineRead).rv, allocation_index_correction)
               THEN allocation_index_correction' = parse_arg(LineRead).rv
               ELSE allocation_index_correction' = allocation_index_correction]_vars

\* C15, witness: the offset grew while skipping, and the line read last, while
\* emitting, is an event line with a larger index that left it as it was
C15_Witness ==
    /\ JustRead
    /\ ~is_skipping
    /\ allocation_index_correction # U64Zero
    /\ IsEvent(LastLine)
    /\ parse_arg(LastLine).tag = "Ok"
    /\ U64Gt(parse_arg(LastLine).rv, allocation_index_correction)

\* what was written for one line read is at most one line: no newline but at its end,
\* and a newline at its end unless nothing is written after it
IsOneLine(k) ==
    /\ output[k] # << >>
    /\ \A i \in 1..(Len(output[k]) - 1) : output[k][i] # B_NL
    /\ k < Len(output) => output[k][Len(output[k])] = B_NL

\* C16: each line read causes at most one line written, the lines written are in the
\* order of the lines read that caused them, and each carries the command tag of the
\* line that caused it.
C16_OrderPreservingFilter ==
    /\ Len(origin) = Len(output)
    /\ \A k \in 1..Len(output) :
           /\ origin[k] \in 1..Len(input)
           /\ IsOneLine(k)
           /\ output[k][1] = input[origin[k]][1]
    /\ \A j, k \in 1..Len(output) : j < k => origin[j] < origin[k]

\* C16, witness: two lines were written, the first rewritten and not as read, and a
\* line read between the two lines that caused them wrote nothing
C16_Witness ==
    \E j, k \in 1..Len(output) :
        /\ j < k
        /\ origin[j] + 1 < origin[k]
        /\ output[j] # input[origin[j]]
        /\ \A h \in 1..Len(output) : origin[h] # origin[j] + 1

\* C17: if the event indices of the input are contiguous in first-occurrence order
\* (the first is 0, every new one at most 1 above the largest before it), then at
\* every event line written new_index <= largest_written_index + 1 holds, wherever
\* the 'c' lines are and whatever the threshold.
C17_AssertionHoldsOfContiguous ==
    [][(/\ ReadsLine
        /\ IsEvent(LineRead)
        /\ ~is_skipping
        /\ U64Gt(parse_arg(LineRead).rv, allocation_index_correction)
        /\ ContiguousLines(Append(input, LineRead)))
       => /\ ~U64IncOverflows(largest_written_allocation_index)
          /\ \A new_index \in { U64WrappingSub(
                                    U64WrappingSub(parse_arg(LineRead).rv,
                                                   allocation_index_correction),
                                    U64(1)) } :
                 \A bound \in { U64WrappingInc(largest_written_allocation_index) } :
                     U64Le(new_index, bound)
          /\ pc' = "loop"
          /\ Len(output') = Len(output) + 1]_vars

\* C17, witness: with debug assertions, on contiguous event indices, the event line
\* read last was written with a new index 1 above the largest written before it
C17_Witness ==
    /\ debug_build
    /\ JustRead
    /\ ContiguousInput
    /\ IsEvent(LastLine)
    /\ WrittenFor(Len(input)) # { }
    /\ largest_written_allocation_index # U64Zero
    /\ largest_written_allocation_index =
           U64WrappingSub(U64WrappingSub(parse_arg(LastLine).rv,
                                         allocation_index_correction), U64(1))
    /\ \A p \in 1..(Len(input) - 1) :
           IsEvent(input[p]) => U64Lt(IndexOf(input[p]), IndexOf(LastLine))

\* C18: if the values of the 'c' lines are non-decreasing, then at every rewritten
\* time line elapsed time - skip threshold does not underflow and is strictly
\* positive; without that, a 'c' line read while emitting with a value below the
\* threshold makes the subtraction underflow: a panic after "c " was written in a
\* build with overflow checks, the difference modulo 2^64 otherwise.
C18_RebasedTimeIsPositive ==
    [][(/\ ReadsLine
        /\ IsTime(LineRead)
        /\ parse_arg(LineRead).tag = "Ok"
        /\ ~is_skipping'
        /\ ~preserve_time)
       => \A value \in { TimeValue(LineRead) } :
              /\ TimesNonDecreasingIn(Append(input, LineRead))
                     => /\ U64Gt(value, skip_timestamp)
                        /\ pc' = "loop"
                        /\ output' = Append(output,
                               << B_c, B_SPACE >>
                               \o write_hex(U64WrappingSub(value, skip_timestamp))
                               \o << B_NL >>)
                        /\ parse_arg(output'[Len(output')]).tag = "Ok"
                        /\ parse_arg(output'[Len(output')]).rv # U64Zero
              /\ U64Lt(value, skip_timestamp)
                     => IF debug_build
                        THEN /\ pc' = "panicked"
                             /\ output' = Append(output, << B_c, B_SPACE >>)
                        ELSE /\ pc' = "loop"
                             /\ U64Gt(U64WrappingSub(value, skip_timestamp), value)
                             /\ output' = Append(output,
                                    << B_c, B_SPACE >>
                                    \o write_hex(U64WrappingSub(value, skip_timestamp))
                                    \o << B_NL >>)]_vars

\* C18, witness: preserve-time off, a threshold above 0, non-decreasing time values:
\* the time line that ended skipping and a later one were both rewritten
C18_Witness ==
    /\ ~preserve_time
    /\ skip_timestamp # U64Zero
    /\ TimesNonDecreasing
    /\ \E j, k \in 1..Len(output) :
           /\ j < k
           /\ IsTime(output[j]) /\ IsTime(output[k])
           /\ IsTime(input[origin[j]]) /\ IsTime(input[origin[k]])
           /\ output[k][Len(output[k])] = B_NL

\* C19: an event line with index 0 never writes a line, skipping or emitting,
\* whatever the threshold: the correction offset is never below 0 and the test that
\* keeps a line is strict. So an allocation 0 defined and referenced only while
\* emitting has its 'a' line written and its event lines dropped.
C19_IndexZeroDropped ==
    [][(/\ ReadsLine
        /\ IsEvent(LineRead)
        /\ parse_arg(LineRead).tag = "Ok"
        /\ parse_arg(LineRead).rv = U64Zero)
       => (output' = output /\ pc' = "loop")]_vars

\* C19, witness: emitting, the first 'a' line of the input was written, and the
\* event line "+ 0" read right after it, the first event line, wrote nothing
C19_Witness ==
    /\ JustRead
    /\ ~is_skipping
    /\ Len(input) >= 2
    /\ IsEvent(LastLine)
    /\ parse_arg(LastLine) = ParseOk(U64Zero)
    /\ WrittenFor(Len(input)) = { }
    /\ IsAlloc(input[Len(input) - 1])
    /\ WrittenFor(Len(input) - 1) # { }
    /\ \A p \in 1..(Len(input) - 2) : ~IsAlloc(input[p]) /\ ~IsEvent(input[p])

====
